---- MODULE Spec2Model ----
(***************************************************************************)
(* A model of the go-sccp UDT codec (NewUDT, MarshalBinary, MarshalTo,     *)
(* UnmarshalBinary, ParseUDT, MarshalLen, SetLength), of the dispatcher    *)
(* ParseMessage and of the digit-swap helpers of package utils.            *)
(*                                                                         *)
(* Go slices are 0-based; the sequences here are 1-based, so b[i] of the   *)
(* code is b[i+1] here and b[lo:hi] is SubSeq(b, lo+1, hi).  Buffers are   *)
(* taken to have cap(b) = len(b).  A run-time panic of the Go code (index  *)
(* or slice bounds out of range) is the outcome kind "panic".              *)
(***************************************************************************)
EXTENDS Integers, Sequences, FiniteSets, TLC

VARIABLES pc, u, res, bcd

vars == <<pc, u, res, bcd>>

-----------------------------------------------------------------------------
(* Bounds of the model's inputs.                                           *)

MaxAddrLen == 1
MaxDataLen == 2
MaxBufLen == 12
MaxTail == 3
MaxHexLen == 4

(* Program constants.                                                      *)

ByteRange == 256
MsgTypeUDT == 9

-----------------------------------------------------------------------------
(* Helpers for bytes, sequences and slices.                                *)

U8(n) == n % ByteRange

Fill(n, v) == [i \in 1..n |-> v]

RECURSIVE SeqsUpTo(_, _)
SeqsUpTo(S, n) ==
    IF n = 0 THEN {<<>>}
    ELSE LET shorter == SeqsUpTo(S, n - 1)
         IN  shorter \cup {Append(s, x) : s \in {t \in shorter : Len(t) = n - 1}, x \in S}

Put(b, i, v) == [b EXCEPT ![i + 1] = v]

Slice(b, lo, hi) == SubSeq(b, lo + 1, hi)

SliceOK(l, lo, hi) == lo <= hi /\ hi <= l

\* copy(dst[off:], src): copies min(len(dst)-off, len(src)) bytes.
CopyAt(b, off, src) ==
    [i \in 1..Len(b) |->
        IF i > off /\ i - off <= Len(src) THEN src[i - off] ELSE b[i]]

CopyCount(l, off, src) == IF l - off < Len(src) THEN l - off ELSE Len(src)

-----------------------------------------------------------------------------
(* params.ProtocolClass and params.PartyAddress: the collaborators of the  *)
(* framing engine.  A party address is the sequence of the bytes that      *)
(* follow its length byte.                                                 *)

NewProtocolClass(pcls, retOnErr) == U8(pcls + (IF retOnErr THEN 128 ELSE 0))

PCValue(p) == p

\* pc.Read(b): consumes exactly one byte.
PCRead(b) == [n |-> 1, value |-> b[1]]

AddrLength(a) == Len(a)

AddrMarshalLen(a) == 1 + Len(a)

\* a.MarshalTo(b[lo:hi]): the length byte, then the address bytes; a slice
\* too short for the block is a truncated buffer, and nothing is written.
AddrMarshalTo(a, b, lo, hi) ==
    IF hi - lo < AddrMarshalLen(a)
    THEN [kind |-> "err", bytes |-> b, written |-> {}]
    ELSE [kind |-> "ok",
          bytes |-> CopyAt(Put(b, lo, AddrLength(a)), lo + 1, a),
          written |-> lo..(lo + Len(a))]

\* params.ParseCalledPartyAddress / ParseCallingPartyAddress on a slice.
ParsePartyAddress(s) ==
    IF Len(s) = 0 \/ s[1] > Len(s) - 1
    THEN [kind |-> "err", addr |-> <<>>]
    ELSE [kind |-> "ok", addr |-> SubSeq(s, 2, 1 + s[1])]

-----------------------------------------------------------------------------
(* The UDT message.                                                        *)

\* &UDT{}: the zero value.
ZeroUDT ==
    [Type |-> 0, ProtocolClass |-> 0, Ptr1 |-> 0, Ptr2 |-> 0, Ptr3 |-> 0,
     CalledPartyAddress |-> <<>>, CallingPartyAddress |-> <<>>,
     DataLength |-> 0, Data |-> <<>>]

SetLength(m) == [m EXCEPT !.DataLength = U8(Len(m.Data))]

NewUDT(pcls, retOnErr, cdpa, cgpa, data) ==
    LET u0 == [Type |-> MsgTypeUDT,
               ProtocolClass |-> NewProtocolClass(pcls, retOnErr),
               Ptr1 |-> 3, Ptr2 |-> 0, Ptr3 |-> 0,
               CalledPartyAddress |-> cdpa, CallingPartyAddress |-> cgpa,
               DataLength |-> 0, Data |-> data]
        u1 == [u0 EXCEPT !.Ptr2 = U8(u0.Ptr1 + U8(AddrLength(cdpa)))]
        u2 == [u1 EXCEPT !.Ptr3 = U8(u1.Ptr2 + U8(AddrLength(cgpa)))]
    IN  SetLength(u2)

\* Mutant: the data-length byte is left out of the count.
MarshalLenNoLengthByte(m) ==
    5 + AddrMarshalLen(m.CalledPartyAddress)
      + AddrMarshalLen(m.CallingPartyAddress) + Len(m.Data)

MarshalLen(m) ==
    6 + AddrMarshalLen(m.CalledPartyAddress)
      + AddrMarshalLen(m.CallingPartyAddress) + Len(m.Data)

\* The offsets MarshalTo and UnmarshalBinary compute from the pointers, in
\* uint8 arithmetic: u.Ptr2+3, u.Ptr3+4 and u.Ptr3+5.
CgPAStart(m) == U8(m.Ptr2 + 3)

DataLenOffset(m) == U8(m.Ptr3 + 4)

DataOffset(m) == U8(m.Ptr3 + 5)

MTOut(kind, err, b, w) == [kind |-> kind, err |-> err, bytes |-> b, written |-> w]

\* MarshalTo, from the address blocks on (the header is written).
MarshalBody(m, b, w) ==
    LET l == Len(b) IN
    IF ~SliceOK(l, 5, CgPAStart(m)) THEN MTOut("panic", "", b, w)
    ELSE
    LET cd == AddrMarshalTo(m.CalledPartyAddress, b, 5, CgPAStart(m)) IN
    IF cd.kind # "ok" THEN MTOut("err", "ErrUnexpectedEOF", cd.bytes, w)
    ELSE IF ~SliceOK(l, CgPAStart(m), DataLenOffset(m))
    THEN MTOut("panic", "", cd.bytes, w \cup cd.written)
    ELSE
    LET cg == AddrMarshalTo(m.CallingPartyAddress, cd.bytes,
                            CgPAStart(m), DataLenOffset(m))
        w2 == w \cup cd.written \cup cg.written
    IN
    IF cg.kind # "ok" THEN MTOut("err", "ErrUnexpectedEOF", cg.bytes, w \cup cd.written)
    ELSE IF DataLenOffset(m) >= l THEN MTOut("panic", "", cg.bytes, w2)
    ELSE
    LET b5 == Put(cg.bytes, DataLenOffset(m), m.DataLength)
        w3 == w2 \cup {DataLenOffset(m)}
        offset == DataOffset(m)
    IN
    IF ~SliceOK(l, offset, l) THEN MTOut("panic", "", b5, w3)
    ELSE IF l - offset >= m.DataLength
    THEN MTOut("ok", "", CopyAt(b5, offset, m.Data),
               w3 \cup (offset..(offset + CopyCount(l, offset, m.Data) - 1)))
    ELSE MTOut("err", "ErrUnexpectedEOF", b5, w3)

MarshalTo(m, b) ==
    LET l == Len(b) IN
    IF l < 5 THEN MTOut("err", "ErrUnexpectedEOF", b, {})
    ELSE
    LET b2 == Put(Put(Put(b, 0, m.Type), 1, PCValue(m.ProtocolClass)), 2, m.Ptr1) IN
    IF l < m.Ptr1 THEN MTOut("err", "ErrUnexpectedEOF", b2, {0, 1, 2})
    ELSE
    LET b3 == Put(b2, 3, m.Ptr2) IN
    IF l < CgPAStart(m) THEN MTOut("err", "ErrUnexpectedEOF", b3, {0, 1, 2, 3})
    ELSE
    LET b4 == Put(b3, 4, m.Ptr3) IN
    IF l < DataOffset(m) THEN MTOut("err", "ErrUnexpectedEOF", b4, {0, 1, 2, 3, 4})
    ELSE MarshalBody(m, b4, {0, 1, 2, 3, 4})

\* make([]byte, n) is zero-filled.
MarshalBinary(m) ==
    LET r == MarshalTo(m, Fill(MarshalLen(m), 0)) IN
    IF r.kind = "ok" THEN r ELSE MTOut(r.kind, r.err, <<>>, r.written)

UMOut(kind, err, m) == [kind |-> kind, err |-> err, msg |-> m]

\* UnmarshalBinary, from the address blocks on (the pointers are read).
UnmarshalBody(m, b) ==
    LET l == Len(b) IN
    IF ~SliceOK(l, 5, CgPAStart(m)) THEN UMOut("panic", "", ZeroUDT)
    ELSE
    LET cd == ParsePartyAddress(Slice(b, 5, CgPAStart(m))) IN
    IF cd.kind # "ok" THEN UMOut("err", "ErrUnexpectedEOF", ZeroUDT)
    ELSE IF ~SliceOK(l, CgPAStart(m), DataLenOffset(m)) THEN UMOut("panic", "", ZeroUDT)
    ELSE
    LET cg == ParsePartyAddress(Slice(b, CgPAStart(m), DataLenOffset(m))) IN
    IF cg.kind # "ok" THEN UMOut("err", "ErrUnexpectedEOF", ZeroUDT)
    ELSE IF DataLenOffset(m) >= l THEN UMOut("panic", "", ZeroUDT)
    ELSE
    LET dataLen == b[DataLenOffset(m) + 1]
        offset == DataOffset(m)
    IN
    IF l >= offset + dataLen
    THEN UMOut("ok", "",
               [m EXCEPT !.CalledPartyAddress = cd.addr,
                         !.CallingPartyAddress = cg.addr,
                         !.DataLength = dataLen,
                         !.Data = Slice(b, offset, offset + dataLen)])
    ELSE UMOut("err", "ErrUnexpectedEOF", ZeroUDT)

\* u.UnmarshalBinary(b) on u = &UDT{}; a failed decode yields no message.
UnmarshalBinary(b) ==
    LET l == Len(b) IN
    IF l <= 5 THEN UMOut("err", "ErrUnexpectedEOF", ZeroUDT)
    ELSE
    LET rd == PCRead(Slice(b, 1, l))
        offset == 1 + rd.n
        m1 == [ZeroUDT EXCEPT !.Type = b[1], !.ProtocolClass = rd.value,
                              !.Ptr1 = b[offset + 1]]
    IN
    IF l < m1.Ptr1 THEN UMOut("err", "ErrUnexpectedEOF", ZeroUDT)
    ELSE
    LET m2 == [m1 EXCEPT !.Ptr2 = b[offset + 2]] IN
    IF l < CgPAStart(m2) THEN UMOut("err", "ErrUnexpectedEOF", ZeroUDT)
    ELSE
    LET m3 == [m2 EXCEPT !.Ptr3 = b[offset + 3]] IN
    IF l < DataOffset(m3) THEN UMOut("err", "ErrUnexpectedEOF", ZeroUDT)
    ELSE UnmarshalBody(m3, b)

ParseUDT(b) == UnmarshalBinary(b)

\* ParseMessage: the type switch, then the variant's UnmarshalBinary.
PMOut(kind, err, tag, delegated, m) ==
    [kind |-> kind, err |-> err, tag |-> tag, delegated |-> delegated, msg |-> m]

\* Mutant: the UDTS case falls through to the UDT decoder.
ParseMessageUDTS(b) ==
    IF Len(b) = 0 THEN PMOut("panic", "", 0, FALSE, ZeroUDT)
    ELSE IF b[1] \in {MsgTypeUDT, MsgTypeUDT + 1}
    THEN LET r == UnmarshalBinary(b) IN PMOut(r.kind, r.err, 0, TRUE, r.msg)
    ELSE PMOut("err", "UnsupportedTypeError", b[1], FALSE, ZeroUDT)

ParseMessage(b) ==
    IF Len(b) = 0 THEN PMOut("panic", "", 0, FALSE, ZeroUDT)
    ELSE IF b[1] = MsgTypeUDT
    THEN LET r == UnmarshalBinary(b) IN PMOut(r.kind, r.err, 0, TRUE, r.msg)
    ELSE PMOut("err", "UnsupportedTypeError", b[1], FALSE, ZeroUDT)

-----------------------------------------------------------------------------
(* Package utils: the digit-swap codec.  A string is the sequence of its   *)
(* characters.                                                             *)

HexDigits ==
    <<"0", "1", "2", "3", "4", "5", "6", "7", "8", "9", "a", "b", "c", "d", "e", "f">>

UpperHexDigits == <<"A", "B", "C", "D", "E", "F">>

\* encoding/hex fromHexChar: the value of a hex digit of either case, or -1.
FromHexChar(c) ==
    IF \E i \in 1..16 : HexDigits[i] = c
    THEN (CHOOSE i \in 1..16 : HexDigits[i] = c) - 1
    ELSE IF \E i \in 1..6 : UpperHexDigits[i] = c
    THEN (CHOOSE i \in 1..6 : UpperHexDigits[i] = c) + 9
    ELSE -1

\* hex.DecodeString: an odd length or a character that is no hex digit fails.
HexDecodeString(s) ==
    IF Len(s) % 2 # 0 \/ \E i \in 1..Len(s) : FromHexChar(s[i]) < 0
    THEN [kind |-> "err", raw |-> <<>>]
    ELSE [kind |-> "ok",
          raw |-> [n \in 1..(Len(s) \div 2) |->
                     16 * FromHexChar(s[2 * n - 1]) + FromHexChar(s[2 * n])]]

\* hex.EncodeToString: two lower-case digits per byte.
HexEncodeToString(raw) ==
    [i \in 1..(2 * Len(raw)) |->
        IF i % 2 = 1 THEN HexDigits[(raw[(i + 1) \div 2] \div 16) + 1]
                     ELSE HexDigits[(raw[i \div 2] % 16) + 1]]

\* Mutant: the low nibble is dropped instead of moved up.
swapHighOnly(raw) == [n \in 1..Len(raw) |-> (raw[n] \div 16) % 16]

\* swap: ((raw[n] >> 4) & 0xf) + ((raw[n] << 4) & 0xf0)
swap(raw) ==
    [n \in 1..Len(raw) |-> ((raw[n] \div 16) % 16) + ((raw[n] * 16) % ByteRange)]

StrToSwappedBytes(s, filler) ==
    LET d == IF Len(s) % 2 = 0 THEN HexDecodeString(s)
                               ELSE HexDecodeString(s \o filler)
    IN  IF d.kind # "ok" THEN [kind |-> "err", raw |-> <<>>]
        ELSE [kind |-> "ok", raw |-> swap(d.raw)]

\* s[:len(s)-1] of an empty string panics.
SwappedBytesToStr(raw, cutLastDigit) ==
    LET s == HexEncodeToString(swap(raw)) IN
    IF ~cutLastDigit THEN [kind |-> "ok", str |-> s]
    ELSE IF Len(s) = 0 THEN [kind |-> "panic", str |-> <<>>]
    ELSE [kind |-> "ok", str |-> SubSeq(s, 1, Len(s) - 1)]

BCDEncode(s) == StrToSwappedBytes(s, <<"f">>)

BCDDecode(isOdd, b) == SwappedBytesToStr(b, isOdd)

-----------------------------------------------------------------------------
(* The inputs the callers draw from.                                       *)

AddrBytes == {7}

LongAddrLens == {248, 253}

Addrs == SeqsUpTo(AddrBytes, MaxAddrLen) \cup {Fill(n, 0) : n \in LongAddrLens}

DataBytes == {222, 173}

Datas == SeqsUpTo(DataBytes, MaxDataLen) \cup {Fill(ByteRange, 222)}

\* Caller-supplied buffers for MarshalTo, pre-filled with 0xFF.
Buffers == {Fill(n, 255) : n \in 0..MaxBufLen}

PtrVals == {0, 1, 2, 3, 4, 10, 251, 253, 255}

TailBytes == {0, 1, 9}

\* The 8-byte frame of the concrete scenario and its first 7 bytes.
ScenarioFrame == <<9, 0, 3, 3, 3, 2, 222, 173>>

UDTFrames ==
    {<<MsgTypeUDT, 0, p1, p2, p3>> \o t :
        p1 \in {3, 255}, p2 \in PtrVals, p3 \in PtrVals, t \in SeqsUpTo(TailBytes, MaxTail)}
    \cup {SubSeq(ScenarioFrame, 1, n) : n \in 0..Len(ScenarioFrame)}

OtherFrames ==
    {<<t>> \o r : t \in (0..21 \cup {255}) \ {MsgTypeUDT},
                  r \in {<<>>, <<0, 3, 3, 3, 0, 0, 0>>}}

Frames == UDTFrames \cup OtherFrames

HexChars == {"0", "1", "9", "a", "f", "A", "F", "g"}

HexStrings == SeqsUpTo(HexChars, MaxHexLen)

-----------------------------------------------------------------------------
(* The state machine: one caller session.  pc is the caller's position, u  *)
(* the UDT it holds, res the outcome of its last codec call, bcd that of   *)
(* its last digit-swap call.                                               *)

Res(op, kind, err, tag, delegated, inbuf, bytes, written, msg) ==
    [op |-> op, kind |-> kind, err |-> err, tag |-> tag, delegated |-> delegated,
     inbuf |-> inbuf, bytes |-> bytes, written |-> written, msg |-> msg]

NoRes == Res("none", "none", "", 0, FALSE, <<>>, <<>>, {}, ZeroUDT)

NoBcd == [op |-> "none", kind |-> "none", s |-> <<>>, raw |-> <<>>, cut |-> FALSE, str |-> <<>>]

Init ==
    /\ pc = "idle"
    /\ u = ZeroUDT
    /\ res = NoRes
    /\ bcd = NoBcd

CallNewUDT ==
    /\ pc = "idle"
    /\ \E pcls \in 0..3, retOnErr \in BOOLEAN, cdpa \in Addrs, cgpa \in Addrs, data \in Datas :
          u' = NewUDT(pcls, retOnErr, cdpa, cgpa, data)
    /\ pc' = "held"
    /\ res' = [NoRes EXCEPT !.op = "NewUDT", !.kind = "ok"]
    /\ UNCHANGED bcd

CallMarshalBinary ==
    /\ pc = "held"
    /\ LET r == MarshalBinary(u) IN
          res' = Res("MarshalBinary", r.kind, r.err, 0, FALSE, <<>>, r.bytes, r.written, ZeroUDT)
    /\ UNCHANGED <<pc, u, bcd>>

CallMarshalTo ==
    /\ pc = "held"
    /\ \E b \in Buffers :
          LET r == MarshalTo(u, b) IN
          res' = Res("MarshalTo", r.kind, r.err, 0, FALSE, b, r.bytes, r.written, ZeroUDT)
    /\ UNCHANGED <<pc, u, bcd>>

\* ParseUDT on the bytes the last MarshalBinary returned.
CallParseMarshalled ==
    /\ pc = "held"
    /\ res.op = "MarshalBinary"
    /\ res.kind = "ok"
    /\ LET r == ParseUDT(res.bytes) IN
          res' = Res("ParseUDT", r.kind, r.err, 0, FALSE, res.bytes, <<>>, {}, r.msg)
    /\ UNCHANGED <<pc, u, bcd>>

CallParseUDT ==
    /\ pc = "idle"
    /\ \E b \in UDTFrames :
          LET r == ParseUDT(b) IN
          res' = Res("ParseUDT", r.kind, r.err, 0, FALSE, b, <<>>, {}, r.msg)
    /\ pc' = "parsed"
    /\ UNCHANGED <<u, bcd>>

CallParseMessage ==
    /\ pc = "idle"
    /\ \E b \in Frames :
          LET r == ParseMessage(b) IN
          res' = Res("ParseMessage", r.kind, r.err, r.tag, r.delegated, b, <<>>, {}, r.msg)
    /\ pc' = "parsed"
    /\ UNCHANGED <<u, bcd>>

Next ==
    \/ CallNewUDT
    \/ CallMarshalBinary
    \/ CallMarshalTo
    \/ CallParseMarshalled
    \/ CallParseUDT
    \/ CallParseMessage

Spec == Init /\ [][Next]_vars

(* The caller assigns the exported fields of the UDT it holds.             *)

SetCalledPartyAddress ==
    /\ pc = "held"
    /\ \E a \in Addrs : u' = [u EXCEPT !.CalledPartyAddress = a]
    /\ res' = NoRes
    /\ UNCHANGED <<pc, bcd>>

SetCallingPartyAddress ==
    /\ pc = "held"
    /\ \E a \in Addrs : u' = [u EXCEPT !.CallingPartyAddress = a]
    /\ res' = NoRes
    /\ UNCHANGED <<pc, bcd>>

SetData ==
    /\ pc = "held"
    /\ \E d \in Datas : u' = [u EXCEPT !.Data = d]
    /\ res' = NoRes
    /\ UNCHANGED <<pc, bcd>>

CallSetLength ==
    /\ pc = "held"
    /\ u' = SetLength(u)
    /\ res' = [NoRes EXCEPT !.op = "SetLength", !.kind = "ok"]
    /\ UNCHANGED <<pc, bcd>>

NextMut ==
    \/ CallNewUDT
    \/ SetCalledPartyAddress
    \/ SetCallingPartyAddress
    \/ SetData
    \/ CallSetLength
    \/ CallMarshalBinary

SpecMut == Init /\ [][NextMut]_vars

(* The digit-swap calls.                                                   *)

CallStrToSwappedBytes ==
    /\ pc = "idle"
    /\ \E s \in HexStrings :
          LET r == BCDEncode(s) IN
          bcd' = [op |-> "StrToSwappedBytes", kind |-> r.kind, s |-> s, raw |-> r.raw,
                  cut |-> FALSE, str |-> <<>>]
    /\ pc' = "encoded"
    /\ UNCHANGED <<u, res>>

CallSwappedBytesToStr ==
    /\ pc = "encoded"
    /\ bcd.kind = "ok"
    /\ \E cut \in BOOLEAN :
          LET r == BCDDecode(cut, bcd.raw) IN
          bcd' = [bcd EXCEPT !.op = "SwappedBytesToStr", !.kind = r.kind,
                             !.cut = cut, !.str = r.str]
    /\ pc' = "decoded"
    /\ UNCHANGED <<u, res>>

NextBCD ==
    \/ CallStrToSwappedBytes
    \/ CallSwappedBytesToStr

SpecBCD == Init /\ [][NextBCD]_vars

-----------------------------------------------------------------------------
(* The properties.                                                         *)

EOFError(r) == r.kind = "err" /\ r.err = "ErrUnexpectedEOF"

\* C1: round trip: a message built by NewUDT serializes, the bytes decode,
\* and the decoded message equals the original field for field.
C1_RoundTrip ==
    /\ (pc = "held" /\ res.op = "MarshalBinary") => res.kind = "ok"
    /\ (pc = "held" /\ res.op = "ParseUDT") => (res.kind = "ok" /\ res.msg = u)

\* C2: length exactness: the bytes MarshalBinary returns are exactly
\* MarshalLen(m) = 6 + called block + calling block + data long, and every
\* one of them, and nothing else, is written by the serializer.
C2_LengthExact ==
    (pc = "held" /\ res.op = "MarshalBinary" /\ res.kind = "ok") =>
        /\ Len(res.bytes) = 6 + (1 + Len(u.CalledPartyAddress))
                              + (1 + Len(u.CallingPartyAddress)) + Len(u.Data)
        /\ res.written = 0..(Len(res.bytes) - 1)

\* The data-length byte of buffer b, at offset Ptr3+4, declares more bytes
\* than remain after it.
DeclaredExceeds(b) ==
    /\ Len(b) >= 6
    /\ b[5] + 4 < Len(b)
    /\ b[b[5] + 5] > Len(b) - (b[5] + 5)

\* C3: bounds rejection: ParseUDT fails with the truncated-buffer error on
\* every buffer shorter than 6 bytes, on every buffer whose declared data
\* length exceeds the bytes remaining, and on the first 7 bytes of the
\* scenario frame.
C3_BoundsRejection ==
    (pc = "parsed" /\ res.op = "ParseUDT") =>
        /\ Len(res.inbuf) < 6 => EOFError(res)
        /\ DeclaredExceeds(res.inbuf) => EOFError(res)
        /\ res.inbuf = SubSeq(ScenarioFrame, 1, 7) => EOFError(res)

\* C4: every failure is an explicit result: ParseMessage and ParseUDT end
\* with a message or an error on every buffer, never with a panic.
C4_NoPanic ==
    res.op \in {"ParseUDT", "ParseMessage"} => res.kind \in {"ok", "err"}

\* C5: pointer derivation: NewUDT yields Ptr1 = 3, Ptr2 = 3 + length(called)
\* and Ptr3 = Ptr2 + length(calling).
C5_PointerDerivation ==
    res.op = "NewUDT" =>
        /\ u.Ptr1 = 3
        /\ u.Ptr2 = 3 + Len(u.CalledPartyAddress)
        /\ u.Ptr3 = u.Ptr2 + Len(u.CallingPartyAddress)

\* C6: unknown type rejection: ParseMessage on a buffer whose first byte is
\* in 1..8 or 10..20 fails with UnsupportedTypeError carrying that byte and
\* decodes nothing; the UDT decoder runs exactly when the first byte is 9.
C6_UnknownTypeRejection ==
    (res.op = "ParseMessage" /\ Len(res.inbuf) > 0) =>
        /\ res.inbuf[1] \in (1..8) \cup (10..20) =>
              /\ res.kind = "err"
              /\ res.err = "UnsupportedTypeError"
              /\ res.tag = res.inbuf[1]
              /\ res.msg = ZeroUDT
        /\ res.delegated <=> res.inbuf[1] = 9

C6_Witness ==
    /\ res.op = "ParseMessage"
    /\ Len(res.inbuf) > 1
    /\ res.inbuf[1] = 17
    /\ res.err = "UnsupportedTypeError"
    /\ res.tag = 17

\* The message of the concrete scenario: class 0, no return-on-error, two
\* addresses of length 0, payload DE AD.
ScenarioUDT == NewUDT(0, FALSE, <<>>, <<>>, <<222, 173>>)

\* C7 as stated: the scenario message encodes to the 8 bytes
\* 09 00 03 03 03 02 DE AD, MarshalLen is 8, and those 8 bytes decode to it.
C7_Scenario ==
    /\ (pc = "held" /\ u = ScenarioUDT /\ res.op = "MarshalBinary") =>
          (res.kind = "ok" /\ res.bytes = ScenarioFrame /\ MarshalLen(u) = 8)
    /\ (res.op = "ParseUDT" /\ res.inbuf = ScenarioFrame) =>
          (res.kind = "ok" /\ res.msg = ScenarioUDT)

ScenarioFrameAmended == <<9, 0, 3, 3, 3, 0, 0, 2, 222, 173>>

\* C7 amended: the scenario message encodes to the 10 bytes
\* 09 00 03 03 03 00 00 02 DE AD (each empty address is its length byte 00),
\* MarshalLen is 10, and those 10 bytes decode to it.
C7_ScenarioAmended ==
    /\ (pc = "held" /\ u = ScenarioUDT /\ res.op = "MarshalBinary") =>
          (res.kind = "ok" /\ res.bytes = ScenarioFrameAmended /\ MarshalLen(u) = 10)
    /\ (pc = "held" /\ u = ScenarioUDT /\ res.op = "ParseUDT") =>
          (res.inbuf = ScenarioFrameAmended /\ res.kind = "ok" /\ res.msg = ScenarioUDT)

C7_Witness ==
    /\ pc = "held"
    /\ u = ScenarioUDT
    /\ res.op = "ParseUDT"
    /\ res.inbuf = ScenarioFrameAmended
    /\ res.kind = "ok"

IsHexString(s) == \A i \in 1..Len(s) : FromHexChar(s[i]) >= 0

ToLower(s) == [i \in 1..Len(s) |-> HexDigits[FromHexChar(s[i]) + 1]]

\* C8 as stated: for every even-length hex string s, of either letter case,
\* encoding with filler "f" succeeds and decoding without cut returns s.
C8_DigitSwapInverse ==
    (Len(bcd.s) % 2 = 0 /\ IsHexString(bcd.s)) =>
        /\ bcd.op = "StrToSwappedBytes" => bcd.kind = "ok"
        /\ (bcd.op = "SwappedBytesToStr" /\ ~bcd.cut) =>
              (bcd.kind = "ok" /\ bcd.str = bcd.s)

\* C8 amended: for every even-length hex string s, encoding with filler "f"
\* succeeds and decoding without cut returns s with its letters in lower
\* case.
C8_DigitSwapInverseLower ==
    (Len(bcd.s) % 2 = 0 /\ IsHexString(bcd.s)) =>
        /\ bcd.op = "StrToSwappedBytes" => bcd.kind = "ok"
        /\ (bcd.op = "SwappedBytesToStr" /\ ~bcd.cut) =>
              (bcd.kind = "ok" /\ bcd.str = ToLower(bcd.s))

C8_Witness ==
    /\ bcd.op = "SwappedBytesToStr"
    /\ ~bcd.cut
    /\ bcd.s = <<"1", "A", "f", "9">>
    /\ bcd.str = <<"1", "a", "f", "9">>

\* C9: pointers stay derived: whenever a message is serialized, its stored
\* pointers are Ptr1 = 3, Ptr2 = Ptr1 + length(called) and
\* Ptr3 = Ptr2 + length(calling), as one-byte values.
C9_PointersStayDerived ==
    res.op = "MarshalBinary" =>
        /\ u.Ptr1 = 3
        /\ u.Ptr2 = U8(u.Ptr1 + Len(u.CalledPartyAddress))
        /\ u.Ptr3 = U8(u.Ptr2 + Len(u.CallingPartyAddress))

\* C10: no partial write: when MarshalTo fails with the truncated-buffer
\* error, the caller's buffer is as it was before the call.
C10_NoPartialWrite ==
    (res.op = "MarshalTo" /\ EOFError(res)) => res.bytes = res.inbuf

====
